---- MODULE Spec2Model ----
(***************************************************************************)
(* The live voice pipeline of AtlasLM: AudioStreamer (capture, VAD,        *)
(* playback scheduling) and LiveClient (session state machine, tool        *)
(* bridge), src/unnamed/part_000, and the audio queue of the podcast       *)
(* player, processAudioQueue in src/App.tsx.                               *)
(*                                                                         *)
(* JavaScript runs one handler at a time, so every action below is one     *)
(* whole handler (one task or one promise continuation).  A handler is a   *)
(* function from the program state, held as a record, to the next state;   *)
(* handlers that call each other are composed the way the code calls them. *)
(***************************************************************************)
EXTENDS Integers, Sequences, FiniteSets, TLC

\* ---- bounds of the model
MaxTransports == 2      \* calls of the WebSocket constructor
MaxInputs == 1          \* capture callbacks plus inbound audio parts
MaxCalls == 2           \* function calls over all inbound messages
MaxBufs == 3            \* buffers submitted to the playback scheduler
MaxTime == 3            \* ticks of the wall clock
MaxDur == 2             \* longest buffer, in ticks
MaxFrames == 24         \* frames fed to the voice detector
MaxUplink == 3          \* frames captured in the sessions of SpecUplink
MaxParts == 2           \* inbound audio parts in the sessions of SpecInbound
SubSteps == 2           \* sample values per quantization step
MaxTurns == 3           \* turns of a podcast script

\* ---- program constants
DebounceCount == 2      \* speakingCounter > 2
HangoverCount == 20     \* silenceCounter > 20
NegScale == 32768       \* s * 0x8000
PosScale == 32767       \* s * 0x7FFF
DecodeScale == 32768    \* int16[i] / 32768.0
maxRetries == 3         \* const maxRetries = 3

Null == 0
TIDs == 1..MaxTransports
ToolNames == {"search_sources", "lookup"}

VARIABLES
    \* LiveClient
    status,            \* this.status
    ws,                \* this.ws: Null or the transport the client holds
    sockets,           \* calls of the WebSocket constructor so far
    readyState,        \* readyState of every transport
    closeDue,          \* transport whose close event follows its error event
    sent,              \* per transport, the messages handed to ws.send
    micPending,        \* transports whose startAudio awaits getUserMedia
    registeredTools,   \* keys of this.registeredTools
    msgs,              \* inbound messages received so far
    parsing,           \* Blob messages whose text() is still pending
    calls,             \* function calls received so far
    resolveOrder,      \* calls whose handler has settled, in that order
    \* AudioStreamer, capture
    isProcessingInput,
    processor,         \* this.processor / inputSource / audioContext held
    pipelines,         \* capture pipelines attached to the microphone
    started,           \* startInput has run at least once
    speakingCounter,
    silenceCounter,
    isVoiceDetected,
    frames,            \* capture callbacks delivered so far
    \* AudioStreamer, playback
    playbackContext,   \* TRUE iff this.playbackContext is not null
    ctxOrigin,         \* wall-clock time at which the held context was made
    nextStartTime,     \* cursor, in the held context's time
    scheduled,         \* buffers started on the held context
    orphaned,          \* buffers still to play on contexts replaced, never closed
    bufs,              \* buffers submitted so far
    interruptedAt,     \* wall-clock time of the last interrupt that acted
    staleCursor,       \* wall-clock cursor that interrupt threw away
    now,               \* wall clock
    \* observation
    lastOp,            \* the handler that ran last (status it found: connect/disconnect/error)
    log,               \* what that handler did, in order
    \* history kept for the capture engine (SpecCapture)
    heard,             \* frames the detector was fed: a loud run, then a quiet run
    vadEvents,         \* arguments of the onVadStateChange calls, in order
    \* history kept for inbound audio
    playOrder,         \* per buffer scheduled in SpecInbound, its message
    \* the PCM codec (SpecCodec)
    sample,            \* a Float32 sample, in units of 1 / (32768 * SubSteps)
    pcm16,             \* << >> or the Int16 it was encoded to
    float32,           \* << >> or the sample decoded back, in the same units
    \* App.processAudioQueue (SpecQueue)
    audioQueue         \* the turns, the loop's i and retryCount, where it waits

\* The fields of LiveClient and AudioStreamer, with what is observed of
\* the last handler.
program == << status, ws, sockets, readyState, closeDue, sent, micPending,
           registeredTools, msgs, parsing, calls, resolveOrder,
           isProcessingInput, processor, pipelines, started, speakingCounter,
           silenceCounter, isVoiceDetected, frames, playbackContext,
           ctxOrigin, nextStartTime, scheduled, orphaned, bufs,
           interruptedAt, staleCursor, now, lastOp, log >>

\* The history variables; only the actions that feed them change them.
history == << heard, vadEvents, playOrder >>

\* What the codec is applied to in SpecCodec; no handler touches it.
codec == << sample, pcm16, float32 >>

vars == << program, history, codec, audioQueue >>

\* The program state as one record.
Cur ==
    [ status |-> status, ws |-> ws, sockets |-> sockets,
      readyState |-> readyState, closeDue |-> closeDue, sent |-> sent,
      micPending |-> micPending, registeredTools |-> registeredTools,
      msgs |-> msgs, parsing |-> parsing, calls |-> calls,
      resolveOrder |-> resolveOrder,
      isProcessingInput |-> isProcessingInput, processor |-> processor,
      pipelines |-> pipelines, started |-> started,
      speakingCounter |-> speakingCounter, silenceCounter |-> silenceCounter,
      isVoiceDetected |-> isVoiceDetected, frames |-> frames,
      playbackContext |-> playbackContext, ctxOrigin |-> ctxOrigin,
      nextStartTime |-> nextStartTime, scheduled |-> scheduled,
      orphaned |-> orphaned, bufs |-> bufs,
      interruptedAt |-> interruptedAt, staleCursor |-> staleCursor,
      now |-> now, lastOp |-> lastOp, log |-> log ]

\* The program state becomes the record a handler returned.
Assign(next) ==
    \E s \in {next} :
       /\ status' = s.status
       /\ ws' = s.ws
       /\ sockets' = s.sockets
       /\ readyState' = s.readyState
       /\ closeDue' = s.closeDue
       /\ sent' = s.sent
       /\ micPending' = s.micPending
       /\ registeredTools' = s.registeredTools
       /\ msgs' = s.msgs
       /\ parsing' = s.parsing
       /\ calls' = s.calls
       /\ resolveOrder' = s.resolveOrder
       /\ isProcessingInput' = s.isProcessingInput
       /\ processor' = s.processor
       /\ pipelines' = s.pipelines
       /\ started' = s.started
       /\ speakingCounter' = s.speakingCounter
       /\ silenceCounter' = s.silenceCounter
       /\ isVoiceDetected' = s.isVoiceDetected
       /\ frames' = s.frames
       /\ playbackContext' = s.playbackContext
       /\ ctxOrigin' = s.ctxOrigin
       /\ nextStartTime' = s.nextStartTime
       /\ scheduled' = s.scheduled
       /\ orphaned' = s.orphaned
       /\ bufs' = s.bufs
       /\ interruptedAt' = s.interruptedAt
       /\ staleCursor' = s.staleCursor
       /\ now' = s.now
       /\ lastOp' = s.lastOp
       /\ log' = s.log

Becomes(next) == Assign(next) /\ UNCHANGED << history, codec, audioQueue >>

\* One entry of the log: what was done, to what, on which transport or call.
E(e, a, n) == [e |-> e, a |-> a, n |-> n]
Log(s, e, a, n) == [s EXCEPT !.log = Append(@, E(e, a, n))]

\* The state a handler starts from: an empty log, its own name and, for the
\* host's calls and the error event, the status it finds.
Begin(op, t) ==
    [Cur EXCEPT !.log = <<>>,
                !.lastOp = [op |-> op, t |-> t,
                            from |-> IF op \in {"connect", "disconnect", "error"}
                                     THEN status ELSE "-"]]

Constructed ==
    /\ status = "disconnected"
    /\ ws = Null
    /\ sockets = 0
    /\ readyState = [t \in TIDs |-> "NONE"]
    /\ closeDue = Null
    /\ sent = [t \in TIDs |-> << >>]
    /\ micPending = {}
    /\ registeredTools = {}
    /\ msgs = << >>
    /\ parsing = {}
    /\ calls = << >>
    /\ resolveOrder = << >>
    /\ isProcessingInput = FALSE
    /\ processor = FALSE
    /\ pipelines = 0
    /\ started = FALSE
    /\ speakingCounter = 0
    /\ silenceCounter = 0
    /\ isVoiceDetected = FALSE
    /\ frames = 0
    /\ playbackContext = FALSE
    /\ ctxOrigin = 0
    /\ nextStartTime = 0
    /\ scheduled = {}
    /\ orphaned = {}
    /\ bufs = 0
    /\ interruptedAt = -1
    /\ staleCursor = -1
    /\ now = 0
    /\ lastOp = [op |-> "init", t |-> Null, from |-> "disconnected"]
    /\ log = << >>
    /\ heard = [loud |-> 0, quiet |-> 0]
    /\ vadEvents = << >>
    /\ playOrder = << >>

\* processAudioQueue has not been called.
Idle ==
    [turns |-> << >>, i |-> 0, retryCount |-> 0, pc |-> "idle",
     attempts |-> << >>, order |-> << >>]

Init ==
    /\ Constructed
    /\ sample = 0
    /\ pcm16 = << >>
    /\ float32 = << >>
    /\ audioQueue = Idle

\* ------------------------------------------------------------------------
\* AudioStreamer: capture

\* startInput(stream): builds a new pipeline and overwrites the held
\* references; whatever was held before stays attached.
startInput(s) ==
    Log([s EXCEPT !.pipelines = @ + 1,
                  !.processor = TRUE,
                  !.started = TRUE,
                  !.isProcessingInput = TRUE], "startInput", "", 0)

\* stopInput() as it would be if it put the detector back to its start.
stopInput_resetsDetector(s) ==
    Log([s EXCEPT !.isProcessingInput = FALSE,
                  !.pipelines = IF s.processor THEN @ - 1 ELSE @,
                  !.processor = FALSE,
                  !.speakingCounter = 0,
                  !.silenceCounter = 0,
                  !.isVoiceDetected = FALSE], "stopInput", "", 0)

\* stopInput(): clears the flag and detaches the held pipeline, if any.
stopInput(s) ==
    Log([s EXCEPT !.isProcessingInput = FALSE,
                  !.pipelines = IF s.processor THEN @ - 1 ELSE @,
                  !.processor = FALSE], "stopInput", "", 0)

\* ------------------------------------------------------------------------
\* AudioStreamer: the PCM codec.  A sample n stands for the real number
\* n / One; such samples are exact Float32 values and their products with
\* the scales are exact doubles, so the arithmetic below is the code's.

One == DecodeScale * SubSteps

\* Math.max(-1, Math.min(1, x))
Clamp(n) == IF n > One THEN One ELSE IF n < -One THEN -One ELSE n

\* The integer part of the real number (n / One) * k, for n >= 0.  With
\* n = SubSteps * u + v it is the integer part of
\* (u * k + v * k / SubSteps) / DecodeScale; computed this way no
\* intermediate value leaves 32 bits.
ScaledUp(n, k) ==
    LET u == n \div SubSteps
        v == n % SubSteps
    IN  (u * k + (v * k) \div SubSteps) \div DecodeScale

\* The same for any n: conversion to an integer truncates toward zero.
Trunc(n, k) == IF n >= 0 THEN ScaledUp(n, k) ELSE -ScaledUp(-n, k)

\* Storing an integer into an Int16Array element: modulo 2^16.
ToInt16(v) == ((v + 2^15) % 2^16) - 2^15

\* floatTo16BitPCM, for one sample
floatTo16BitPCM(n) ==
    LET s == Clamp(n)
    IN  ToInt16(IF s < 0 THEN Trunc(s, NegScale) ELSE Trunc(s, PosScale))

\* pcm16ToFloat32, for one sample: i / 32768 in units of 1 / One
pcm16ToFloat32(i) == i * (One \div DecodeScale)

\* ------------------------------------------------------------------------
\* AudioStreamer: playback.  A context's currentTime starts at 0 when the
\* context is made and then follows the wall clock.

currentTime(s) == s.now - s.ctxOrigin

\* A buffer of the held context, with its start on the wall clock.
OnWallClock(s, b) == [b EXCEPT !.start = s.ctxOrigin + b.start]

\* initPlayback(): a new context replaces the held one, which is not closed:
\* what was scheduled on it keeps playing.
initPlayback(s) ==
    Log([s EXCEPT !.orphaned = @ \cup {OnWallClock(s, b) : b \in s.scheduled},
                  !.scheduled = {},
                  !.playbackContext = TRUE,
                  !.ctxOrigin = s.now,
                  !.nextStartTime = 0], "initPlayback", "", 0)

\* playAudioChunk as it would be if the cursor were moved to the end of the
\* buffer measured from the device clock.
playAudioChunk_cursorFromClock(s, dur) ==
    LET s1 == IF ~s.playbackContext THEN initPlayback(s) ELSE s
        cur == currentTime(s1)
        start == IF s1.nextStartTime < cur THEN cur ELSE s1.nextStartTime
        id == s1.bufs + 1
    IN  Log([s1 EXCEPT !.bufs = id,
                       !.scheduled = @ \cup {[id |-> id, start |-> start,
                                              dur |-> dur, at |-> s1.now]},
                       !.nextStartTime = cur + dur], "start", "", id)

\* playAudioChunk(base64Audio), for a payload that decodes to dur ticks.
playAudioChunk(s, dur) ==
    LET s1 == IF ~s.playbackContext THEN initPlayback(s) ELSE s
        cur == currentTime(s1)
        start == IF s1.nextStartTime < cur THEN cur ELSE s1.nextStartTime
        id == s1.bufs + 1
    IN  Log([s1 EXCEPT !.bufs = id,
                       !.scheduled = @ \cup {[id |-> id, start |-> start,
                                              dur |-> dur, at |-> s1.now]},
                       !.nextStartTime = start + dur], "start", "", id)

\* playAudioChunk(base64Audio) for a payload that does not decode: atob,
\* the Int16Array constructor or createBuffer throws after the lazy
\* initPlayback(), before anything is scheduled or the cursor moved.
playAudioChunkThrows(s) ==
    Log(IF ~s.playbackContext THEN initPlayback(s) ELSE s, "throw", "", 0)

\* The close-and-forget half of interrupt().
closePlayback(s) ==
    [s EXCEPT !.scheduled = {},
              !.playbackContext = FALSE,
              !.ctxOrigin = 0,
              !.nextStartTime = 0]

\* interrupt() as it would be if the cursor survived the new context.
interrupt_keepsCursor(s) ==
    IF s.playbackContext
    THEN [initPlayback(closePlayback(Log(s, "interrupt", "", 0)))
             EXCEPT !.nextStartTime = s.nextStartTime]
    ELSE Log(s, "interrupt", "", 0)

\* interrupt(): closes the held context, which discards what is scheduled
\* on it, and makes a new one at once.  Nothing happens without a context.
interrupt(s) ==
    IF s.playbackContext
    THEN initPlayback(closePlayback(Log(s, "interrupt", "", 0)))
    ELSE Log(s, "interrupt", "", 0)

\* ------------------------------------------------------------------------
\* LiveClient

Msg(kind, id, name, result) ==
    [kind |-> kind, id |-> id, name |-> name, result |-> result]

\* send(data): a no-op unless the transport the client holds NOW is open.
send(s, m) ==
    IF s.ws # Null /\ s.readyState[s.ws] = "OPEN"
    THEN Log([s EXCEPT !.sent[s.ws] = Append(@, m)], "send", m.kind, s.ws)
    ELSE s

\* this.status = v; this.onStatusChange(v)
setStatus(s, v) == Log([s EXCEPT !.status = v], "status", v, 0)

\* WebSocket.close(): CONNECTING and OPEN become CLOSING.
AfterClose(rs) == IF rs \in {"CONNECTING", "OPEN"} THEN "CLOSING" ELSE rs

\* disconnect() as it would be without the stopInput() call.
disconnect_keepsCapture(s) ==
    LET s1 == IF s.ws # Null
              THEN Log([s EXCEPT !.readyState[s.ws] = AfterClose(@),
                                 !.ws = Null], "close", "", s.ws)
              ELSE s
    IN  setStatus(interrupt(s1), "disconnected")

disconnect(s) ==
    LET s1 == IF s.ws # Null
              THEN Log([s EXCEPT !.readyState[s.ws] = AfterClose(@),
                                 !.ws = Null], "close", "", s.ws)
              ELSE s
    IN  setStatus(interrupt(stopInput(s1)), "disconnected")

\* connect() as it would be without the disconnect() of the prior session.
connect_noTeardown(s, throws) ==
    LET s2 == setStatus(s, "connecting")
        t  == s2.sockets + 1
    IN  IF throws
        THEN setStatus(s2, "error")
        ELSE Log([s2 EXCEPT !.sockets = t,
                            !.ws = t,
                            !.readyState[t] = "CONNECTING"], "new", "", t)

\* connect(apiKey, systemInstruction); throws: the WebSocket constructor
\* throws.  The four handlers are the actions OpenEvent .. CloseEvent.
connect(s, throws) ==
    LET s1 == IF s.ws # Null THEN disconnect(s) ELSE s
        s2 == setStatus(s1, "connecting")
        t  == s2.sockets + 1
    IN  IF throws
        THEN setStatus([s2 EXCEPT !.sockets = t], "error")
        ELSE Log([s2 EXCEPT !.sockets = t,
                            !.ws = t,
                            !.readyState[t] = "CONNECTING"], "new", "", t)

\* setupSession(systemInstruction): the declared tool is written out in the
\* message; the registry is not read.
setupSession(s) == send(s, Msg("setup", 0, "search_sources", 0))

\* startAudio() up to its await.
startAudio(s, t) ==
    Log([s EXCEPT !.micPending = @ \cup {t}], "getUserMedia", "", t)

\* startAudio() after getUserMedia resolved.
startAudioGranted(s) == initPlayback(startInput(s))

\* startAudio() after getUserMedia rejected.
startAudioDenied(s) == setStatus(s, "error")

\* ws.onopen as it would be with startAudio() called before setupSession().
onopen_audioFirst(s, t) ==
    setupSession(startAudio(setStatus(s, "connected"), t))

\* ws.onopen
onopen(s, t) == startAudio(setupSession(setStatus(s, "connected")), t)

\* ws.onerror as it would be without the disconnect() call.
onerror_noDisconnect(s) == setStatus(s, "error")

\* ws.onerror
onerror(s) == disconnect(setStatus(s, "error"))

\* ws.onclose
onclose(s) == stopInput(setStatus(s, "disconnected"))

\* onVadStateChange as it would be without the interrupt() call.
onVadStateChange_noInterrupt(s, isSpeaking) ==
    IF isSpeaking THEN Log(s, "vad", "speaking", 0)
    ELSE Log(s, "vad", "silence", 0)

\* audioStreamer.onVadStateChange; sendInput is an empty method.
onVadStateChange(s, isSpeaking) ==
    IF isSpeaking THEN interrupt(Log(s, "vad", "speaking", 0))
    ELSE Log(s, "vad", "silence", 0)

\* sendRealtimeInput as it would be if the message were handed over twice.
sendRealtimeInput_twice(s, frame) ==
    send(send(s, Msg("realtimeInput", frame, "", 0)),
         Msg("realtimeInput", frame, "", 0))

sendRealtimeInput(s, frame) == send(s, Msg("realtimeInput", frame, "", 0))

\* The detector as it would be if a loud frame left silenceCounter alone.
vad_keepsSilence(s, loud) ==
    IF loud
    THEN LET a == [s EXCEPT !.speakingCounter = @ + 1]
         IN  IF a.speakingCounter > DebounceCount /\ ~a.isVoiceDetected
             THEN onVadStateChange([a EXCEPT !.isVoiceDetected = TRUE], TRUE)
             ELSE a
    ELSE LET a == [s EXCEPT !.silenceCounter = @ + 1,
                            !.speakingCounter = 0]
         IN  IF a.silenceCounter > HangoverCount /\ a.isVoiceDetected
             THEN onVadStateChange([a EXCEPT !.isVoiceDetected = FALSE], FALSE)
             ELSE a

\* The detector: the counters and the reports of onaudioprocess, for a
\* frame whose rms is above the threshold (loud) or not.
vad(s, loud) ==
    IF loud
    THEN LET a == [s EXCEPT !.speakingCounter = @ + 1,
                            !.silenceCounter = 0]
         IN  IF a.speakingCounter > DebounceCount /\ ~a.isVoiceDetected
             THEN onVadStateChange([a EXCEPT !.isVoiceDetected = TRUE], TRUE)
             ELSE a
    ELSE LET a == [s EXCEPT !.silenceCounter = @ + 1,
                            !.speakingCounter = 0]
         IN  IF a.silenceCounter > HangoverCount /\ a.isVoiceDetected
             THEN onVadStateChange([a EXCEPT !.isVoiceDetected = FALSE], FALSE)
             ELSE a

\* onaudioprocess as it would be without the isProcessingInput check.
onaudioprocess_noFlag(s, loud) ==
    sendRealtimeInput(vad(Log(s, "volume", "", 0), loud), s.frames)

\* processor.onaudioprocess, for a frame whose rms is above the threshold
\* (loud) or not.
onaudioprocess(s, loud) ==
    IF ~s.isProcessingInput THEN s
    ELSE sendRealtimeInput(vad(Log(s, "volume", "", 0), loud), s.frames)

\* ------------------------------------------------------------------------
\* LiveClient: inbound messages and the tool bridge

\* All parts decode.
Decodes(parts) == \A i \in 1..Len(parts) : parts[i]

\* The for loop over modelTurn.parts; a part is TRUE when its payload
\* decodes.  Every audio part is played until one throws: the exception
\* leaves the loop.
RECURSIVE playParts(_, _)
playParts(s, parts) ==
    IF parts = << >> THEN s
    ELSE IF Head(parts) THEN playParts(playAudioChunk(s, 1), Tail(parts))
    ELSE playAudioChunkThrows(s)

\* The entry as it would be if it were built from the first call received.
toolResponse_firstCall(s, c) ==
    Msg("toolResponse", s.calls[1].id, s.calls[1].name, c)

\* The functionResponses entry built for call c after its handler returned.
toolResponse(s, c) == Msg("toolResponse", s.calls[c].id, s.calls[c].name, c)

\* handleToolCall as it would be if an unknown tool ended the loop.
handleToolCall_returnsOnUnknown(s, fcs) ==
    IF fcs = << >> THEN s
    ELSE LET c == Head(fcs) IN
         IF s.calls[c].name \in s.registeredTools
         THEN Log(Log([s EXCEPT !.calls[c].state = "running",
                                !.calls[c].rest = Tail(fcs)],
                      "transcript", s.calls[c].name, c),
                  "invoke", s.calls[c].name, c)
         ELSE Log([s EXCEPT !.calls[c].state = "dropped",
                            !.calls[c].warned = @ + 1],
                  "warn", s.calls[c].name, c)

\* handleToolCall, from the call at the head of fcs up to the next await
\* (a registered tool's handler is invoked and awaited) or to the end.
RECURSIVE handleToolCall(_, _)
handleToolCall(s, fcs) ==
    IF fcs = << >> THEN s
    ELSE LET c == Head(fcs) IN
         IF s.calls[c].name \in s.registeredTools
         THEN Log(Log([s EXCEPT !.calls[c].state = "running",
                                !.calls[c].rest = Tail(fcs)],
                      "transcript", s.calls[c].name, c),
                  "invoke", s.calls[c].name, c)
         ELSE handleToolCall(
                  Log([s EXCEPT !.calls[c].state = "dropped",
                                !.calls[c].warned = @ + 1],
                      "warn", s.calls[c].name, c),
                  Tail(fcs))

\* afterHandler as it would be if the response were handed to send twice.
afterHandler_repliesTwice(s, c) ==
    handleToolCall(
        send(send([s EXCEPT !.calls[c].state = "resolved",
                            !.resolveOrder = Append(@, c)],
                  toolResponse(s, c)), toolResponse(s, c)),
        s.calls[c].rest)

\* handleToolCall after the awaited handler of call c returned.
afterHandler(s, c) ==
    handleToolCall(
        send([s EXCEPT !.calls[c].state = "resolved",
                       !.resolveOrder = Append(@, c)], toolResponse(s, c)),
        s.calls[c].rest)

\* handleMessage(msg)
\* handleMessage(msg); an exception thrown in the loop over the parts ends
\* the function, so the tool calls of the message are not reached.
handleMessage(s, m) ==
    LET s1 == playParts(s, s.msgs[m].parts)
    IN  IF Decodes(s.msgs[m].parts) /\ s.msgs[m].calls # << >>
        THEN handleToolCall(s1, s.msgs[m].calls)
        ELSE s1

\* ws.onmessage: a Blob is parsed after an await, a string at once.
onmessage(s, m, blob) ==
    IF blob
    THEN Log([s EXCEPT !.parsing = @ \cup {m}], "text", "", m)
    ELSE handleMessage(s, m)

\* The sequences of tool names an inbound toolCall may carry.
NameSeqs == UNION {[1..n -> ToolNames] : n \in 0..MaxCalls}

\* The state after the transport delivered a message with these contents.
Received(s, t, parts, names) ==
    LET base == Len(s.calls)
        ids  == [i \in 1..Len(names) |-> base + i]
        new  == [i \in 1..Len(names) |->
                    [id |-> base + i, name |-> names[i], t |-> t,
                     state |-> "received", rest |-> << >>,
                     warned |-> 0]]
    IN  [s EXCEPT !.calls = @ \o new,
                  !.msgs = Append(@, [t |-> t, parts |-> parts,
                                      calls |-> ids])]

\* ------------------------------------------------------------------------
\* Actions.  The close event of a failed transport is dispatched right
\* after its error event, in the same task: nothing runs in between.

Connect ==
    /\ closeDue = Null
    /\ sockets < MaxTransports
    /\ Becomes(connect(Begin("connect", ws), FALSE))

ConnectThrows ==
    /\ closeDue = Null
    /\ sockets < MaxTransports
    /\ Becomes(connect(Begin("connect", ws), TRUE))

Disconnect ==
    /\ closeDue = Null
    /\ Becomes(disconnect(Begin("disconnect", ws)))

RegisterTool ==
    /\ closeDue = Null
    /\ \E n \in ToolNames \ registeredTools :
          Becomes([Begin("registerTool", Null)
                      EXCEPT !.registeredTools = @ \cup {n}])

OpenEvent ==
    /\ closeDue = Null
    /\ \E t \in TIDs :
          /\ readyState[t] = "CONNECTING"
          /\ Becomes(onopen([Begin("open", t)
                                EXCEPT !.readyState[t] = "OPEN"], t))

\* Capture callbacks delivered and audio parts received so far.
RECURSIVE PartsIn(_)
PartsIn(ms) ==
    IF ms = << >> THEN 0 ELSE Len(Head(ms).parts) + PartsIn(Tail(ms))
Inputs == frames + PartsIn(msgs)

\* The buffers a handler scheduled, each tagged with message m.
IsStart(x) == x.e = "start"
Played(s, m) == [i \in 1..Len(SelectSeq(s.log, IsStart)) |-> m]

\* A message event carrying these audio parts and the calls named; the
\* order of play is recorded where track is set.
Message(parts, names, blobs, track) ==
    /\ closeDue = Null
    /\ Len(calls) + Len(names) <= MaxCalls
    /\ \E t \in TIDs, blob \in blobs :
          /\ readyState[t] = "OPEN"
          /\ \E s \in {onmessage(Received(Begin("message", t), t, parts,
                                          names),
                                 Len(msgs) + 1, blob)} :
                /\ Assign(s)
                /\ playOrder' = IF track
                                THEN playOrder \o Played(s, Len(msgs) + 1)
                                ELSE playOrder
                /\ UNCHANGED << heard, vadEvents, codec, audioQueue >>

\* serverContent with audio parts that decode
AudioEvent ==
    \E n \in 1..MaxInputs :
       /\ Inputs + n <= MaxInputs
       /\ Message([i \in 1..n |-> TRUE], << >>, BOOLEAN, FALSE)

\* toolCall with function calls, delivered as a string
ToolCallEvent ==
    \E names \in NameSeqs \ {<< >>} : Message(<< >>, names, {FALSE}, FALSE)

\* Audio parts of an inbound message: each decodes or not.
PartSeqs == UNION {[1..n -> BOOLEAN] : n \in 1..MaxParts}

\* serverContent whose audio parts may be malformed, with at most one
\* function call in the same message
InboundEvent ==
    \E parts \in PartSeqs, names \in {ns \in NameSeqs : Len(ns) <= 1} :
       /\ PartsIn(msgs) + Len(parts) <= MaxParts
       /\ Message(parts, names, BOOLEAN, TRUE)

\* The text() of a Blob message resolved: the continuation of onmessage.
Parsed(track) ==
    /\ closeDue = Null
    /\ \E m \in parsing :
          \E s \in {handleMessage([Begin("parsed", msgs[m].t)
                                     EXCEPT !.parsing = @ \ {m}], m)} :
             /\ Assign(s)
             /\ playOrder' = IF track THEN playOrder \o Played(s, m)
                             ELSE playOrder
             /\ UNCHANGED << heard, vadEvents, codec, audioQueue >>

ParseDone == Parsed(FALSE)

InboundParsed == Parsed(TRUE)

ErrorEvent ==
    /\ closeDue = Null
    /\ \E t \in TIDs :
          /\ readyState[t] \in {"CONNECTING", "OPEN", "CLOSING"}
          /\ Becomes(onerror([Begin("error", t)
                                 EXCEPT !.readyState[t] = "CLOSED",
                                        !.closeDue = t]))

CloseEvent ==
    \E t \in TIDs :
       /\ \/ closeDue = t
          \/ closeDue = Null /\ readyState[t] \in {"OPEN", "CLOSING"}
       /\ Becomes(onclose([Begin("close", t)
                              EXCEPT !.readyState[t] = "CLOSED",
                                     !.closeDue = Null]))

PermissionGranted ==
    /\ closeDue = Null
    /\ \E t \in micPending :
          Becomes(startAudioGranted([Begin("granted", t)
                                        EXCEPT !.micPending = @ \ {t}]))

PermissionDenied ==
    /\ closeDue = Null
    /\ \E t \in micPending :
          Becomes(startAudioDenied([Begin("denied", t)
                                       EXCEPT !.micPending = @ \ {t}]))

HandlerResolve ==
    /\ closeDue = Null
    /\ \E c \in 1..Len(calls) :
          /\ calls[c].state = "running"
          /\ Becomes(afterHandler(Begin("resolved", c), c))

\* A rejection as it would be if the loop went on to the next call.
HandlerReject_goesOn ==
    /\ closeDue = Null
    /\ \E c \in 1..Len(calls) :
          /\ calls[c].state = "running"
          /\ Becomes(handleToolCall([Begin("rejected", c)
                                        EXCEPT !.calls[c].state = "rejected",
                                               !.resolveOrder = Append(@, c)],
                                    calls[c].rest))

HandlerReject ==
    /\ closeDue = Null
    /\ \E c \in 1..Len(calls) :
          /\ calls[c].state = "running"
          /\ Becomes([Begin("rejected", c)
                         EXCEPT !.calls[c].state = "rejected",
                                !.resolveOrder = Append(@, c)])

CaptureFrame ==
    /\ closeDue = Null
    /\ started
    /\ Inputs < MaxInputs
    /\ \E loud \in BOOLEAN :
          Becomes(onaudioprocess([Begin("frame", Null)
                                     EXCEPT !.frames = @ + 1], loud))

\* The session: the host's calls, the transport's events, the microphone
\* and inbound audio.
Next ==
    \/ Connect
    \/ ConnectThrows
    \/ Disconnect
    \/ OpenEvent
    \/ AudioEvent
    \/ ParseDone
    \/ ErrorEvent
    \/ CloseEvent
    \/ PermissionGranted
    \/ PermissionDenied
    \/ CaptureFrame

Spec == Init /\ [][Next]_vars

\* The tool bridge: sessions that receive toolCall messages.  Sessions end
\* here by disconnect() or by the teardown inside connect(); the close event
\* changes nothing that send() reads (CLOSING and CLOSED both refuse).
NextTools ==
    \/ Connect
    \/ Disconnect
    \/ RegisterTool
    \/ OpenEvent
    \/ ToolCallEvent
    \/ HandlerResolve
    \/ HandlerReject

SpecTools == Init /\ [][NextTools]_vars

\* ------------------------------------------------------------------------
\* The capture engine in a session: the detector is fed a run of frames
\* above the threshold followed by a run of frames below it, while the host
\* connects and the transport and the microphone answer.

IsVad(x) == x.e = "vad"
\* The onVadStateChange calls of a handler, as their arguments.
VadCalls(s) ==
    LET r == SelectSeq(s.log, IsVad)
    IN  [i \in 1..Len(r) |-> r[i].a = "speaking"]

VadFrame ==
    /\ closeDue = Null
    /\ isProcessingInput
    /\ frames < MaxFrames
    /\ \E loud \in BOOLEAN :
          /\ loud => heard.quiet = 0
          /\ \E s \in {onaudioprocess([Begin("frame", Null)
                                         EXCEPT !.frames = @ + 1], loud)} :
                /\ Assign(s)
                /\ heard' = IF loud THEN [heard EXCEPT !.loud = @ + 1]
                                    ELSE [heard EXCEPT !.quiet = @ + 1]
                /\ vadEvents' = vadEvents \o VadCalls(s)
                /\ playOrder' = playOrder
                /\ UNCHANGED << codec, audioQueue >>

\* The transport the client holds is open.
HoldsOpen == ws # Null /\ readyState[ws] = "OPEN"

\* The detector over long streams, fed while the session is open.
NextCapture ==
    \/ Connect
    \/ OpenEvent
    \/ PermissionGranted
    \/ (HoldsOpen /\ VadFrame)

SpecCapture == Init /\ [][NextCapture]_vars

\* The uplink over short streams, under every interleaving of the host's
\* calls, the transport's events and the microphone's answers.
NextUplink ==
    \/ Connect
    \/ Disconnect
    \/ OpenEvent
    \/ CloseEvent
    \/ PermissionGranted
    \/ (frames < MaxUplink /\ VadFrame)

SpecUplink == Init /\ [][NextUplink]_vars

\* Inbound messages in a session: audio parts that decode or not, parsed
\* at once (string) or after an await (Blob).
NextInbound ==
    \/ Connect
    \/ OpenEvent
    \/ InboundEvent
    \/ InboundParsed

SpecInbound == Init /\ [][NextInbound]_vars

\* ------------------------------------------------------------------------
\* The codec on its own: a sample is encoded, then decoded.

\* Samples from just below -1 to just above 1.
Samples == (-One - SubSteps)..(One + SubSteps)

InitCodec ==
    /\ Constructed
    /\ sample \in Samples
    /\ pcm16 = << >>
    /\ float32 = << >>
    /\ audioQueue = Idle

EncodeOp ==
    /\ pcm16 = << >>
    /\ pcm16' = << floatTo16BitPCM(sample) >>
    /\ UNCHANGED << sample, float32, program, history, audioQueue >>

DecodeOp ==
    /\ pcm16 # << >>
    /\ float32 = << >>
    /\ float32' = << pcm16ToFloat32(pcm16[1]) >>
    /\ UNCHANGED << sample, pcm16, program, history, audioQueue >>

NextCodec ==
    \/ EncodeOp
    \/ DecodeOp

SpecCodec == InitCodec /\ [][NextCodec]_vars

\* ------------------------------------------------------------------------
\* The playback scheduler on its own, driven through its three methods
\* while the wall clock runs.

PlayAudioChunkOp ==
    /\ bufs < MaxBufs
    /\ \E dur \in 1..MaxDur :
          Becomes(playAudioChunk(Begin("playAudioChunk", Null), dur))

InitPlaybackOp ==
    Becomes(initPlayback(Begin("initPlayback", Null)))

\* interrupt(), remembering when it acted and the cursor it threw away.
InterruptOp ==
    Becomes([interrupt(Begin("interrupt", Null))
                EXCEPT !.interruptedAt =
                           IF playbackContext THEN now ELSE @,
                       !.staleCursor =
                           IF playbackContext
                           THEN ctxOrigin + nextStartTime ELSE @])

\* The wall clock advances; a buffer on a replaced context that has played
\* to its end is gone.
Tick ==
    /\ now < MaxTime
    /\ Becomes([Begin("tick", Null)
                   EXCEPT !.now = @ + 1,
                          !.orphaned = {b \in @ : b.start + b.dur > now + 1}])

NextPlay ==
    \/ PlayAudioChunkOp
    \/ InitPlaybackOp
    \/ InterruptOp
    \/ Tick

SpecPlay == Init /\ [][NextPlay]_vars

\* ------------------------------------------------------------------------
\* What the last handler did

Did(e, a) == \E i \in 1..Len(log) : log[i].e = e /\ log[i].a = a

\* Position of the first such entry of the log, 0 when there is none.
Pos(e, a) ==
    IF Did(e, a)
    THEN CHOOSE i \in 1..Len(log) :
            /\ log[i].e = e /\ log[i].a = a
            /\ \A j \in 1..(i - 1) : ~(log[j].e = e /\ log[j].a = a)
    ELSE 0

IsStatus(x) == x.e = "status"
\* The statuses handed to onStatusChange by the last handler, in order.
Reported ==
    LET r == SelectSeq(log, IsStatus) IN [i \in 1..Len(r) |-> r[i].a]

Live(t) == readyState[t] \in {"CONNECTING", "OPEN"}

\* Capture is stopped: the flag is down and no pipeline is held.
CaptureStopped == ~isProcessingInput /\ ~processor

\* The scheduler is flushed: nothing is scheduled on the context it holds.
Flushed == scheduled = {}

\* A buffer that has not finished playing.
Audible(b) == b.start + b.dur > now

C3_SetupFirst ==
    /\ \A t \in TIDs : \A i \in 1..Len(sent[t]) :
          (sent[t][i].kind = "setup") <=> (i = 1)
    /\ lastOp.op = "open" =>
          /\ status = "connected"
          /\ sent[lastOp.t] = << Msg("setup", 0, "search_sources", 0) >>
          /\ 0 < Pos("status", "connected")
          /\ Pos("status", "connected") < Pos("send", "setup")
          /\ Pos("send", "setup") < Pos("getUserMedia", "")
          /\ ~Did("startInput", "")
          /\ ~Did("initPlayback", "")
    /\ \A t \in micPending : Len(sent[t]) >= 1
    /\ lastOp.op = "granted" =>
          /\ Len(sent[lastOp.t]) >= 1
          /\ 0 < Pos("startInput", "")
          /\ Pos("startInput", "") < Pos("initPlayback", "")

\* A captured frame went out on a transport, behind its setup message.
C3_Witness ==
    \E t \in TIDs :
       /\ Len(sent[t]) >= 2
       /\ sent[t][1].kind = "setup"
       /\ sent[t][2].kind = "realtimeInput"

C5_CloseFlushesPlayback ==
    lastOp.op = "close" =>
        /\ status = "disconnected"
        /\ CaptureStopped
        /\ Flushed

\* C6: every toolResponse sent carries the id and the name of the call
\* whose handler produced its result; and on every transport the responses
\* are sent in the order in which their handlers resolved.
IsResponse(x) == x.kind = "toolResponse"
Responses(t) == SelectSeq(sent[t], IsResponse)
ResolvedAt(c) ==
    CHOOSE i \in 1..Len(resolveOrder) : resolveOrder[i] = c

C6_ToolCorrelation ==
    \A t \in TIDs :
       LET r == Responses(t) IN
       /\ \A i \in 1..Len(r) :
             /\ r[i].result \in 1..Len(calls)
             /\ calls[r[i].result].state = "resolved"
             /\ r[i].id = calls[r[i].result].id
             /\ r[i].name = calls[r[i].result].name
       /\ \A i, j \in 1..Len(r) :
             i < j => ResolvedAt(r[i].result) < ResolvedAt(r[j].result)

\* Calls 1 and 2 ran concurrently, 2 resolved first, and both were answered.
C6_Witness ==
    /\ resolveOrder = << 2, 1 >>
    /\ \E t \in TIDs :
          /\ Len(Responses(t)) = 2
          /\ Responses(t)[1].id = 2
          /\ Responses(t)[2].id = 1

C8_StaleResponseDiscarded ==
    \A t \in TIDs : \A i \in 1..Len(sent[t]) :
       sent[t][i].kind = "toolResponse" =>
          calls[sent[t][i].result].t = t

\* C9: an interrupt that finds a context leaves a context held, with the
\* cursor at that context's current time and nothing scheduled; every
\* buffer on the held context starts no earlier than the last interrupt,
\* and the first one submitted after it starts at the moment it was
\* submitted, whatever the cursor was before.
FirstScheduled(b) == \A o \in scheduled : b.id <= o.id

C9_InterruptResetsCursor ==
    /\ (lastOp.op = "interrupt" /\ interruptedAt >= 0) =>
          /\ playbackContext
          /\ interruptedAt = now
          /\ ctxOrigin = now
          /\ nextStartTime = currentTime(Cur)
          /\ scheduled = {}
    /\ interruptedAt >= 0 =>
          \A b \in scheduled :
             /\ ctxOrigin + b.start >= interruptedAt
             /\ FirstScheduled(b) => ctxOrigin + b.start = b.at

\* A buffer was submitted after an interrupt that threw away a cursor
\* lying beyond the moment of submission.
C9_Witness ==
    /\ lastOp.op = "playAudioChunk"
    /\ interruptedAt >= 0
    /\ \E b \in scheduled :
          /\ FirstScheduled(b)
          /\ b.at >= interruptedAt
          /\ staleCursor > b.at

\* C10: once a handler has run interrupt(), no buffer submitted before can
\* still reach the output device.
C10_InterruptDiscardsAll ==
    Did("interrupt", "") =>
        \A b \in scheduled \cup orphaned : ~Audible(b)

\* C11: on the held context, as long as no buffer was submitted after the
\* device clock had passed the cursor (no interrupt or re-initialisation
\* lies between buffers of one context), the k-th buffer starts at the start
\* of the first plus the durations of the k-1 buffers before it: no gap and
\* no overlap.
Earlier(b) == {c \in scheduled : c.id < b.id}

RECURSIVE SumDur(_)
SumDur(S) ==
    IF S = {} THEN 0
    ELSE LET c == CHOOSE x \in S : TRUE IN c.dur + SumDur(S \ {c})

\* The buffer submitted just before b on the held context.
Prev(b) == CHOOSE c \in Earlier(b) : \A o \in Earlier(b) : o.id <= c.id

\* b was submitted after the device clock had overtaken the cursor.
Overtaken(b) ==
    /\ Earlier(b) # {}
    /\ b.at - ctxOrigin > Prev(b).start + Prev(b).dur

C11_Gapless ==
    \A b \in scheduled :
       (\A c \in scheduled : c.id <= b.id => ~Overtaken(c)) =>
          \E f \in scheduled :
             /\ FirstScheduled(f)
             /\ b.start = f.start + SumDur(Earlier(b))

\* Three buffers of unequal length on one context, the later ones submitted
\* while the first was already playing, none after the cursor was passed.
C11_Witness ==
    /\ lastOp.op = "playAudioChunk"
    /\ Cardinality(scheduled) = 3
    /\ \A c \in scheduled : ~Overtaken(c)
    /\ \E b, c \in scheduled : b.dur # c.dur /\ c.at > b.at
    /\ \E f, b \in scheduled :
          /\ FirstScheduled(f)
          /\ Cardinality(Earlier(b)) = 2
          /\ b.at > f.at
          /\ b.start = f.start + SumDur(Earlier(b))

\* ------------------------------------------------------------------------
\* C12: a frame on which the detector reports speaking runs interrupt() and
\* changes neither SessionState nor the transport nor the capture engine,
\* and puts nothing on the transport but the frame's own realtimeInput; a
\* frame on which it reports silence leaves the playback scheduler, the
\* state, the transport and the capture engine as they were.
SessionKept ==
    /\ status' = status
    /\ ws' = ws
    /\ readyState' = readyState
    /\ sockets' = sockets
    /\ micPending' = micPending
    /\ isProcessingInput' = isProcessingInput
    /\ processor' = processor
    /\ pipelines' = pipelines
    /\ \/ sent' = sent
       \/ /\ ws # Null
          /\ sent' = [sent EXCEPT
                         ![ws] = Append(@, Msg("realtimeInput", frames', "", 0))]

PlaybackKept ==
    /\ playbackContext' = playbackContext
    /\ ctxOrigin' = ctxOrigin
    /\ nextStartTime' = nextStartTime
    /\ scheduled' = scheduled
    /\ orphaned' = orphaned

C12_BargeInStep ==
    /\ (lastOp'.op = "frame" /\ Did("vad", "speaking")') =>
          /\ Did("interrupt", "")'
          /\ playbackContext => (scheduled' = {} /\ nextStartTime' = 0)
          /\ SessionKept
    /\ (lastOp'.op = "frame" /\ Did("vad", "silence")') =>
          /\ ~Did("interrupt", "")'
          /\ PlaybackKept
          /\ SessionKept

C12_BargeIn == [][C12_BargeInStep]_vars

\* In a connected session the detector has reported speaking and, on the
\* last frame, silence.
C12_Witness ==
    /\ lastOp.op = "frame"
    /\ Did("vad", "silence")
    /\ vadEvents = << TRUE, FALSE >>
    /\ status = "connected"
    /\ playbackContext
    /\ Did("send", "realtimeInput")

\* C13: for a stream of N frames above the threshold followed by M frames
\* below it, fed from the initial detector state, speaking is reported iff
\* N >= 2, silence is reported iff speaking was and M >= 20, and no report
\* repeats the state the detector is already in.
Spoke == \E i \in 1..Len(vadEvents) : vadEvents[i]
WentSilent == \E i \in 1..Len(vadEvents) : ~vadEvents[i]

C13_VadDebounce ==
    /\ Spoke <=> heard.loud >= DebounceCount
    /\ WentSilent <=> (Spoke /\ heard.quiet >= HangoverCount)
    /\ \A i \in 1..Len(vadEvents) : vadEvents[i] = (i % 2 = 1)

\* C15: every frame captured while the transport the client holds is open
\* puts exactly one realtimeInput on it, carrying that frame; a frame
\* captured otherwise puts nothing anywhere, then or later; so what each
\* transport carries is a subsequence of the captured frames, in order.
IsRealtimeInput(x) == x.kind = "realtimeInput"
IsSend(x) == x.e = "send"
FramesSent(t) ==
    LET r == SelectSeq(sent[t], IsRealtimeInput)
    IN  [i \in 1..Len(r) |-> r[i].id]

\* The last frame a transport carries, 0 when it carries none.
LastFrame(t) ==
    LET r == FramesSent(t) IN IF r = << >> THEN 0 ELSE r[Len(r)]

C15_FramesInOrder ==
    /\ \A t \in TIDs :
          LET r == FramesSent(t)
          IN  \A i \in 1..(Len(r) - 1) : r[i] < r[i + 1]
    /\ \A t \in TIDs : LastFrame(t) <= frames
    /\ lastOp.op # "frame" => ~Did("send", "realtimeInput")
    /\ (lastOp.op = "frame" /\ isProcessingInput /\ HoldsOpen) =>
          /\ Len(SelectSeq(log, IsSend)) = 1
          /\ sent[ws][Len(sent[ws])] = Msg("realtimeInput", frames, "", 0)
          /\ \A t \in TIDs \ {ws} : LastFrame(t) < frames
    /\ (lastOp.op = "frame" /\ ~HoldsOpen) =>
          /\ SelectSeq(log, IsSend) = << >>
          /\ \A t \in TIDs : LastFrame(t) < frames

\* Frames were captured while no transport was open and dropped; later
\* frames went out on the transport that opened afterwards.
C15_Witness ==
    /\ lastOp.op = "frame"
    /\ HoldsOpen
    /\ Len(FramesSent(ws)) >= 2
    /\ FramesSent(ws)[1] > 1
    /\ \A t \in TIDs : \A i \in 1..Len(FramesSent(t)) : FramesSent(t)[i] # 1

\* C14: stopInput() leaves the flag down and no pipeline held, and a frame
\* callback delivered while the flag is down (after stopInput(), before the
\* next startInput()) invokes no volume, VAD or encoded-frame callback.
C14_StoppedIsSilent ==
    /\ (Did("stopInput", "") /\ ~Did("startInput", "")) => CaptureStopped
    /\ (lastOp.op = "frame" /\ ~isProcessingInput) => log = << >>

\* Capture was started and stopped, and the audio subsystem then delivered
\* one more frame callback.
C14_Witness ==
    /\ lastOp.op = "frame"
    /\ started
    /\ CaptureStopped
    /\ frames >= 1
    /\ log = << >>

\* C18: when getUserMedia rejects after the transport opened, the state
\* becomes error and the session is over: the transport it belongs to is no
\* longer connecting or open, and while the state stays error no inbound
\* audio is played and no tool call dispatched.
C18_MicFailureIsFatal ==
    /\ lastOp.op = "denied" =>
          /\ status = "error"
          /\ ~Live(lastOp.t)
    /\ (status = "error" /\ lastOp.op \in {"message", "parsed"}) =>
          /\ ~Did("start", "")
          /\ ~Did("invoke", "search_sources")
          /\ ~Did("invoke", "lookup")

\* C19: the setup message sent on open declares exactly the tools that
\* have a handler in the registry at that moment.
Declared(t) ==
    {sent[t][i].name : i \in {j \in 1..Len(sent[t]) : sent[t][j].kind = "setup"}}

C19_SetupFromRegistry ==
    lastOp.op = "open" => Declared(lastOp.t) = registeredTools

\* C16: buffers are scheduled in the order in which their messages arrived
\* on the transport, however long each message's parsing takes.
C16_PlayedInArrivalOrder ==
    \A i \in 1..(Len(playOrder) - 1) : playOrder[i] <= playOrder[i + 1]

\* C17: a part that does not decode is the only thing skipped: once a
\* message has been handled, every part of it that decodes has been
\* scheduled and every call it carries has been looked up.
ScheduledOf(m) ==
    Cardinality({i \in 1..Len(playOrder) : playOrder[i] = m})
DecodableOf(m) ==
    Cardinality({i \in 1..Len(msgs[m].parts) : msgs[m].parts[i]})

C17_MalformedSkipsOnlyItself ==
    \A m \in 1..Len(msgs) :
       m \notin parsing =>
          /\ ScheduledOf(m) = DecodableOf(m)
          /\ \A k \in 1..Len(msgs[m].calls) :
                calls[msgs[m].calls[k]].state # "received"

\* C20: for every sample x in [-1, 1], decode(encode(x)) is within one
\* quantization step, 1/32768, of x.
Abs(n) == IF n < 0 THEN -n ELSE n

C20_RoundTrip ==
    (float32 # << >> /\ sample \in (-One)..One) =>
        Abs(float32[1] - sample) <= SubSteps


\* ------------------------------------------------------------------------
\* C21: from the return of disconnect() until the next connect(), capture
\* is not running and no buffer is scheduled, whatever completes meanwhile:
\* a grant of the microphone, the parsing of a message in flight.  Stated
\* for the first thing that happens after disconnect() returned.
C21_DisconnectCancelsAll ==
    [][(lastOp.op = "disconnect" /\ lastOp'.op # "connect")
          => (CaptureStopped /\ Flushed)']_vars

\* ------------------------------------------------------------------------
\* C22: startInput never runs while a pipeline started before is still
\* attached: at most one pipeline feeds the detector and the encoder.
C22_OnePipeline == pipelines <= 1

\* ------------------------------------------------------------------------
\* C23: the state changes only along the edges of the session state
\* machine: connecting is entered only by connect(); connected only from
\* connecting, on the open event of the held transport; error only from
\* connecting or connected.

\* The states a handler went through: the one it found, then each one it set.
StatusPath(before, lg) ==
    << before >> \o [i \in 1..Len(SelectSeq(lg, IsStatus)) |->
                        SelectSeq(lg, IsStatus)[i].a]

C23_EdgesOnly ==
    [][LET path == StatusPath(status, log')
           IsEdge(a, b) ==
               \/ a = b
               \/ b = "disconnected"
               \/ b = "connecting" /\ lastOp'.op = "connect"
               \/ /\ b = "connected"
                  /\ a = "connecting"
                  /\ lastOp'.op = "open"
                  /\ lastOp'.t = ws'
               \/ b = "error" /\ a \in {"connecting", "connected"}
       IN  \A i \in 1..(Len(path) - 1) : IsEdge(path[i], path[i + 1])]_vars

\* ------------------------------------------------------------------------
\* C24: a call of a registered tool whose handler resolves while the
\* transport the call arrived on is open gets exactly one toolResponse,
\* carrying its id and the handler's result, sent by the continuation of
\* that handler and not before; no call ever gets more than one response.

\* Where, in what was sent, the responses to the call with this id are.
Answers(snt, id) ==
    UNION {{<< t, i >> : i \in {j \in 1..Len(snt[t]) :
                                  /\ snt[t][j].kind = "toolResponse"
                                  /\ snt[t][j].id = id}} : t \in TIDs}

C24_Step ==
    /\ \A c \in 1..Len(calls') :
          /\ Cardinality(Answers(sent', calls'[c].id)) <= 1
          /\ \A a \in Answers(sent', calls'[c].id) :
                /\ calls'[c].state = "resolved"
                /\ sent'[a[1]][a[2]].result = c
    /\ (lastOp'.op = "resolved" /\ readyState[calls[lastOp'.t].t] = "OPEN") =>
          /\ Answers(sent, calls[lastOp'.t].id) = {}
          /\ Cardinality(Answers(sent', calls[lastOp'.t].id)) = 1

C24_ExactlyOneResponse == [][C24_Step]_vars

\* A handler resolved while the transport of its call was open, after
\* another call had been answered, and its response is the one just sent.
C24_Witness ==
    /\ lastOp.op = "resolved"
    /\ readyState[calls[lastOp.t].t] = "OPEN"
    /\ Len(resolveOrder) = 2
    /\ Cardinality(Answers(sent, calls[lastOp.t].id)) = 1
    /\ \E i \in 1..Len(log) : log[i].e = "send" /\ log[i].a = "toolResponse"

\* ------------------------------------------------------------------------
\* C25: every buffer is scheduled at the later of the device time and the
\* cursor, and the cursor becomes that start plus the buffer's duration; so
\* a buffer never starts before the one submitted before it has ended, and
\* never before the device time at which it was submitted.

\* The buffers that can still reach the output, on the wall clock.
Pending == {OnWallClock(Cur, b) : b \in scheduled} \cup orphaned

\* The buffer the last playAudioChunk scheduled.
Newest == CHOOSE b \in scheduled : b.id = bufs

C25_Step ==
    /\ lastOp'.op = "playAudioChunk" =>
          LET device == IF playbackContext THEN currentTime(Cur) ELSE 0
              cursor == IF playbackContext THEN nextStartTime ELSE 0
          IN  /\ Newest'.start = IF cursor < device THEN device ELSE cursor
              /\ nextStartTime' = Newest'.start + Newest'.dur
              /\ Newest'.start >= device
    /\ \A b, c \in Pending' : b.id < c.id => c.start >= b.start + b.dur

C25_CursorInvariant == [][C25_Step]_vars

\* ------------------------------------------------------------------------
\* The detector over the lifetime of an AudioStreamer: frames above and
\* below the threshold in any order, fed while the session is open, and the
\* host reconnecting in between: connect() tears the session down, which
\* stops capture, and the next grant of the microphone starts it again.

DetectorFrame ==
    /\ closeDue = Null
    /\ isProcessingInput
    /\ frames < MaxFrames
    /\ \E loud \in BOOLEAN :
          \E s \in {onaudioprocess([Begin("frame", Null)
                                      EXCEPT !.frames = @ + 1], loud)} :
             /\ Assign(s)
             /\ vadEvents' = vadEvents \o VadCalls(s)
             /\ UNCHANGED << heard, playOrder, codec, audioQueue >>

NextDetector ==
    \/ Connect
    \/ OpenEvent
    \/ PermissionGranted
    \/ (HoldsOpen /\ DetectorFrame)

SpecDetector == Init /\ [][NextDetector]_vars

\* ------------------------------------------------------------------------
\* C26: each processed frame adds one to one of the two counters and sets
\* the other to zero, so at most one of them is non-zero; the detector
\* turns to speaking only on a frame that takes speakingCounter beyond the
\* debounce count, and to silence only on a frame that takes silenceCounter
\* beyond the hangover count.
C26_Step ==
    /\ speakingCounter' = 0 \/ silenceCounter' = 0
    /\ lastOp'.op = "frame" =>
          \/ speakingCounter' = speakingCounter + 1 /\ silenceCounter' = 0
          \/ silenceCounter' = silenceCounter + 1 /\ speakingCounter' = 0
    /\ (isVoiceDetected' /\ ~isVoiceDetected) =>
          /\ lastOp'.op = "frame"
          /\ speakingCounter' > DebounceCount
    /\ (~isVoiceDetected' /\ isVoiceDetected) =>
          /\ lastOp'.op = "frame"
          /\ silenceCounter' > HangoverCount

C26_CountersExclusive == [][C26_Step]_vars

\* A loud frame has just cut a run of silence short of the hangover count
\* while the detector was speaking.
C26_Witness ==
    /\ lastOp.op = "frame"
    /\ isVoiceDetected
    /\ speakingCounter = 1
    /\ silenceCounter = 0
    /\ vadEvents = << TRUE >>
    /\ frames > DebounceCount + 2

\* ------------------------------------------------------------------------
\* C27: the events of a transport that disconnect() closed or a later
\* connect() replaced are inert: they leave SessionState as it is, do not
\* call the status callback and do not stop the capture of the session
\* that is current; so whenever the state is disconnected no transport of
\* the client is open.

\* The last handler served an event of a transport the client had let go.
StaleEvent ==
    /\ lastOp'.op \in {"open", "message", "error", "close"}
    /\ lastOp'.t # ws

C27_Step ==
    /\ StaleEvent =>
          /\ status' = status
          /\ \A i \in 1..Len(log') : log'[i].e # "status"
          /\ isProcessingInput' = isProcessingInput
          /\ processor' = processor
    /\ status' = "disconnected" => \A t \in TIDs : readyState'[t] # "OPEN"

C27_StaleEventsInert == [][C27_Step]_vars

\* ------------------------------------------------------------------------
\* C28: the calls of one toolCall message are handled one after the other:
\* call k+1 is looked up only after the handler of call k has resolved and
\* its response has been handed to send (or call k was dropped); when the
\* handler of call k rejects or has not resolved, the calls after it in
\* the message are not invoked and get no response; and a rejection
\* touches no call of another message.
C28_Step ==
    /\ \A m \in 1..Len(msgs') : \A k \in 1..(Len(msgs'[m].calls) - 1) :
          LET c == msgs'[m].calls[k]
              d == msgs'[m].calls[k + 1]
          IN  /\ calls'[d].state # "received" =>
                    calls'[c].state \in {"resolved", "dropped"}
              /\ calls'[c].state \in {"running", "rejected"} =>
                    /\ calls'[d].state = "received"
                    /\ Answers(sent', calls'[d].id) = {}
    /\ lastOp'.op = "resolved" =>
          \A i, j \in 1..Len(log') :
             (log'[i].e = "send" /\ log'[j].e \in {"invoke", "warn"}) => i < j
    /\ lastOp'.op = "rejected" =>
          /\ sent' = sent
          /\ log' = << >>
          /\ \A c \in 1..Len(calls) :
                c # lastOp'.t => calls'[c] = calls[c]

C28_Sequential == [][C28_Step]_vars

\* The first call of a message of two was rejected and the second is still
\* where it arrived.
C28_Witness ==
    /\ Len(msgs) = 1
    /\ msgs[1].calls = << 1, 2 >>
    /\ calls[1].state = "rejected"
    /\ calls[2].state = "received"
    /\ calls[2].name \in registeredTools
    /\ lastOp.op = "rejected"

\* ------------------------------------------------------------------------
\* C29: startInput() and stopInput() leave the counters and the state of
\* the detector as they are, so a session inherits what the one before
\* left; over the lifetime of the AudioStreamer the reports alternate,
\* speaking first, and a session that starts in the speaking state reports
\* no speaking (and interrupts nothing) before it has reported silence.
DetectorKept ==
    /\ speakingCounter' = speakingCounter
    /\ silenceCounter' = silenceCounter
    /\ isVoiceDetected' = isVoiceDetected

C29_Step ==
    /\ lastOp'.op # "frame" => DetectorKept /\ vadEvents' = vadEvents
    /\ \A i \in 1..Len(vadEvents') : vadEvents'[i] = (i % 2 = 1)
    /\ isVoiceDetected' = (Len(vadEvents') % 2 = 1)
    /\ (lastOp'.op = "frame" /\ isVoiceDetected) =>
          \A i \in 1..Len(log') :
             /\ log'[i].e # "interrupt"
             /\ ~(log'[i].e = "vad" /\ log'[i].a = "speaking")

C29_DetectorSurvives == [][C29_Step]_vars

\* The second session started in the speaking state the first had left,
\* and its third loud frame in a row has just been processed without a
\* report.
C29_Witness ==
    /\ lastOp.op = "frame"
    /\ \A i \in 1..Len(log) : log[i].e # "vad"
    /\ vadEvents = << TRUE >>
    /\ isVoiceDetected
    /\ speakingCounter = DebounceCount + 1
    /\ sockets = 2
    /\ Len(FramesSent(1)) = DebounceCount + 1
    /\ Len(FramesSent(2)) = DebounceCount + 2

\* ------------------------------------------------------------------------
\* App.processAudioQueue: audio is fetched for the turns of a script, one
\* turn after the other.  Each step runs the function from one await to
\* the next.  Turn k of the model is turns[k - 1] of the code.

\* setState(... turns.map(t => t.id === turns[i].id ? {...t, ...} : t))
setTurn(q, k, st, audio) ==
    [q EXCEPT !.turns[k] = [status |-> st, audioBase64 |-> audio]]

\* The while loop at its test, for turn q.i: another attempt marks the turn
\* as generating and waits 1500 ms; otherwise the for loop goes on.
RECURSIVE forLoop(_, _)
whileLoop(q) ==
    IF q.retryCount < maxRetries
    THEN [setTurn(q, q.i, "generating", q.turns[q.i].audioBase64)
             EXCEPT !.pc = "delay"]
    ELSE forLoop(q, q.i + 1)

\* The for loop at its test with i = k: turns that have audio are passed.
forLoop(q, k) ==
    IF k > Len(q.turns) THEN [q EXCEPT !.i = k, !.pc = "done"]
    ELSE IF q.turns[k].audioBase64 THEN forLoop(q, k + 1)
    ELSE whileLoop([q EXCEPT !.i = k, !.retryCount = 0])

\* A turn as the script generator or an earlier run left it.
TurnsIn ==
    {[status |-> "pending", audioBase64 |-> FALSE],
     [status |-> "ready", audioBase64 |-> TRUE]}

\* processAudioQueue(turns), with or without a client in geminiRef
ProcessAudioQueue ==
    /\ audioQueue.pc = "idle"
    /\ \E n \in 0..MaxTurns, hasClient \in BOOLEAN :
          \E ts \in [1..n -> TurnsIn] :
             LET q == [Idle EXCEPT !.turns = ts,
                                   !.attempts = [k \in 1..n |-> 0]]
             IN  audioQueue' = IF hasClient THEN forLoop(q, 1)
                               ELSE [q EXCEPT !.pc = "done"]
    /\ UNCHANGED << program, history, codec >>

\* The 1500 ms have passed: generateSpeech is called.
DelayElapsed ==
    /\ audioQueue.pc = "delay"
    /\ audioQueue' = [audioQueue EXCEPT
                         !.pc = "speech",
                         !.attempts[audioQueue.i] = @ + 1,
                         !.order = Append(@, audioQueue.i)]
    /\ UNCHANGED << program, history, codec >>

\* generateSpeech resolved: the turn is ready and carries its audio.
SpeechResolved ==
    /\ audioQueue.pc = "speech"
    /\ audioQueue' = forLoop(setTurn(audioQueue, audioQueue.i, "ready", TRUE),
                             audioQueue.i + 1)
    /\ UNCHANGED << program, history, codec >>

\* generateSpeech rejected with a 429: the queue pauses.
SpeechRateLimited ==
    /\ audioQueue.pc = "speech"
    /\ audioQueue' = [audioQueue EXCEPT !.pc = "backoff"]
    /\ UNCHANGED << program, history, codec >>

\* The pause is over: retryCount++ and back to the test of the while loop.
BackoffElapsed ==
    /\ audioQueue.pc = "backoff"
    /\ audioQueue' = whileLoop([audioQueue EXCEPT !.retryCount = @ + 1])
    /\ UNCHANGED << program, history, codec >>

\* generateSpeech rejected with anything else: the turn is in error and the
\* while loop is left.
SpeechFailed ==
    /\ audioQueue.pc = "speech"
    /\ audioQueue' = forLoop(setTurn(audioQueue, audioQueue.i, "error",
                                     audioQueue.turns[audioQueue.i].audioBase64),
                             audioQueue.i + 1)
    /\ UNCHANGED << program, history, codec >>

NextQueue ==
    \/ ProcessAudioQueue
    \/ DelayElapsed
    \/ SpeechResolved
    \/ SpeechRateLimited
    \/ BackoffElapsed
    \/ SpeechFailed

SpecQueue == Init /\ [][NextQueue]_vars

\* ------------------------------------------------------------------------
\* C30: the turns are handled in order, each with at most three attempts,
\* and every turn the loop has handled has left 'generating' and is
\* 'ready', with its audio, or 'error', also when every attempt was turned
\* down with a 429; and the loop comes to its end.

\* The loop has gone past turn k, having called generateSpeech for it.
Handled(k) ==
    /\ audioQueue.attempts[k] > 0
    /\ k < audioQueue.i \/ audioQueue.pc = "done"

C30_QueueSettles ==
    /\ \A k \in 1..Len(audioQueue.turns) :
          /\ audioQueue.attempts[k] <= maxRetries
          /\ Handled(k) =>
                \/ /\ audioQueue.turns[k].status = "ready"
                   /\ audioQueue.turns[k].audioBase64
                \/ audioQueue.turns[k].status = "error"
    /\ \A a, b \in 1..Len(audioQueue.order) :
          a < b => audioQueue.order[a] <= audioQueue.order[b]

====
